---- MODULE Spec2Model ----
(***************************************************************************)
(* Model of the backend relay api/generate.js: the retry helper withRetry  *)
(* and the request handler that chains the text-generation call (Gemini)   *)
(* and the image-generation call (Imagen).                                 *)
(***************************************************************************)
EXTENDS Integers, Sequences, FiniteSets, TLC

(***************************************************************************)
(* JavaScript values.  Every value is a tagged record so that values of    *)
(* different JavaScript types can be compared.                             *)
(***************************************************************************)
Undefined == [type |-> "undefined"]
Null == [type |-> "null"]
Str(s) == [type |-> "string", val |-> s]
Obj(f) == [type |-> "object", fields |-> f]
Arr(q) == [type |-> "array", elems |-> q]
\* A string whose content is kept as a sequence of JSON tokens, so that
\* JSON.parse can be computed on it.
Text(toks) == [type |-> "string", toks |-> toks]

\* The outcome of an expression that throws instead of yielding a value.
Thrown(name, msg) == [type |-> "thrown", name |-> name, message |-> msg]
IsThrown(v) == v.type = "thrown"

\* ToBoolean, as applied by `!x` and `x || y` (src/api/generate.js:22,55,86).
Truthy(v) ==
  CASE v.type = "undefined" -> FALSE
    [] v.type = "null" -> FALSE
    [] v.type = "string" -> IF "val" \in DOMAIN v THEN v.val # "" ELSE v.toks # <<>>
    [] OTHER -> TRUE

\* Variant of OrElse: x ?? y, which keeps an empty string.
OrElseNullish(x, y) == IF x.type \in {"undefined", "null"} THEN y ELSE x

\* x || y
OrElse(x, y) == IF Truthy(x) THEN x ELSE y

\* Property read o.k / o[k] without optional chaining: throws a TypeError on
\* undefined and null, yields undefined for a property that is not there.
Member(o, k) ==
  CASE o.type = "thrown" -> o
    [] o.type \in {"undefined", "null"} ->
         Thrown("TypeError", "Cannot read properties of " \o o.type)
    [] o.type = "object" -> IF k \in DOMAIN o.fields THEN o.fields[k] ELSE Undefined
    [] o.type = "array" -> IF k + 1 \in DOMAIN o.elems THEN o.elems[k + 1] ELSE Undefined
    [] OTHER -> Undefined

\* Property read o?.k / o?.[k]: undefined on undefined and null.
OptMember(o, k) ==
  IF o.type \in {"undefined", "null"} THEN Undefined ELSE Member(o, k)

\* Conversion to string inside a template literal `${v}`.
TemplateString(v) ==
  CASE v.type = "string" -> v.val
    [] v.type = "undefined" -> "undefined"
    [] v.type = "null" -> "null"
    [] OTHER -> "[object Object]"

(***************************************************************************)
(* JSON texts.  A text is a sequence of tokens; JSONParse is the parser    *)
(* for the subset of JSON the relay meets: null, a string, or an object    *)
(* whose members are strings or null.                                      *)
(***************************************************************************)
LBrace == [tok |-> "{"]
RBrace == [tok |-> "}"]
Comma == [tok |-> ","]
Colon == [tok |-> ":"]
NullTok == [tok |-> "null"]
StrTok(s) == [tok |-> "str", val |-> s]
\* A token that starts no JSON value (a bare word such as `Sure`).
WordTok == [tok |-> "word"]

SyntaxError == Thrown("SyntaxError", "Unexpected token in JSON")

IsScalarTok(t) == t.tok \in {"str", "null"}
ScalarOf(t) == IF t.tok = "str" THEN Str(t.val) ELSE Null

RECURSIVE ParseMembers(_, _)
ParseMembers(rest, acc) ==
  IF Len(rest) < 4 THEN SyntaxError
  ELSE IF rest[1].tok # "str" \/ rest[2] # Colon \/ ~IsScalarTok(rest[3]) THEN SyntaxError
  ELSE LET key == rest[1].val
           acc2 == [k \in DOMAIN acc \cup {key} |->
                      IF k = key THEN ScalarOf(rest[3]) ELSE acc[k]]
       IN  IF rest[4] = RBrace
           THEN IF Len(rest) = 4 THEN Obj(acc2) ELSE SyntaxError
           ELSE IF rest[4] = Comma
           THEN ParseMembers(SubSeq(rest, 5, Len(rest)), acc2)
           ELSE SyntaxError

\* JSON.parse(text) for a string argument.
JSONParseText(toks) ==
  IF toks = <<>> THEN SyntaxError
  ELSE IF Len(toks) = 1
  THEN IF IsScalarTok(toks[1]) THEN ScalarOf(toks[1]) ELSE SyntaxError
  ELSE IF toks[1] # LBrace THEN SyntaxError
  ELSE IF toks = <<LBrace, RBrace>> THEN Obj(<<>>)
  ELSE ParseMembers(Tail(toks), <<>>)

\* JSON.parse(v): the argument is first converted to a string, so undefined
\* is parsed as the text `undefined`, which is not JSON.
JSONParse(v) ==
  CASE v.type = "thrown" -> v
    [] v.type = "string" /\ "toks" \in DOMAIN v -> JSONParseText(v.toks)
    [] OTHER -> SyntaxError

(***************************************************************************)
(* Program constants.                                                      *)
(***************************************************************************)
\* withRetry's default parameters.
maxRetries == 3
delay == 1000

\* Variant of FallbackName: the English fallback without its article.
FallbackNameEnglish == Str("Unnamed Creation")

\* The fallback idea, the initial values of the three `let` variables.
FallbackName == Str("Il Creato Senza Nome")
FallbackTranslation == Str("The Unnamed Creation")
FallbackImagePrompt ==
  Str("A surreal hybrid creature, vibrant colors, baroque illustration, octane render.")

DataUriPrefix == "data:image/png;base64,"
NoDataMessage == "Image generation failed to return data."
KeyMissingMessage == "API key not configured."
MethodNotAllowedMessage == "Method Not Allowed"
InternalErrorMessage == "An internal server error occurred."

\* The prompt of the image request, built around the image prompt of stage 1.
ImagenPrompt(p) ==
  "Highly cinematic, detailed, and artistic illustration of: " \o TemplateString(p)
    \o ". Baroque style, golden ratio, dramatic lighting."

\* imagenPayload
ImagenPayload(p) ==
  Obj([instances |-> Obj([prompt |-> Str(ImagenPrompt(p))]),
       parameters |-> Obj([sampleCount |-> [type |-> "number", val |-> 1]])])

(***************************************************************************)
(* The environment: inbound requests and upstream HTTP responses.          *)
(***************************************************************************)
\* A response body that is not JSON (response.json() rejects on it).
NotJson == [type |-> "notjson"]

\* An HTTP response as fetch resolves it: the ok flag and the body.
Response(ok, body) == [ok |-> ok, body |-> body]

\* await response.json()
ResponseJson(resp) == IF resp.body = NotJson THEN SyntaxError ELSE resp.body

\* Messages of the errors fetch rejects with (a network failure).
NetErrors == {"fetch failed", "socket hang up"}

\* The members `"key":value` of a JSON object text; no member for undefined.
MemberToks(key, v) ==
  CASE v.type = "undefined" -> <<>>
    [] v.type = "null" -> <<StrTok(key), Colon, NullTok>>
    [] OTHER -> <<StrTok(key), Colon, StrTok(v.val)>>

\* a, b joined by a comma when both are non-empty.
JoinToks(a, b) == IF a = <<>> THEN b ELSE IF b = <<>> THEN a ELSE a \o <<Comma>> \o b

\* JSON.stringify({italianName: n, englishTranslation: t, imagePrompt: p}),
\* the text the text model is asked for (propertyOrdering of the schema).
IdeaText(n, t, p) ==
  <<LBrace>> \o JoinToks(MemberToks("italianName", n),
                  JoinToks(MemberToks("englishTranslation", t),
                           MemberToks("imagePrompt", p))) \o <<RBrace>>

ItalianNames == {Undefined, Null, Str(""), Str("Gattociclo")}
EnglishTranslations == {Undefined, Str(""), Str("Cat-cycle")}
ImagePrompts == {Undefined, Str(""), Str("a bicycle with a cat's head")}

WellFormedTexts ==
  {IdeaText(n, t, p) : n \in ItalianNames, t \in EnglishTranslations, p \in ImagePrompts}
    \cup {<<NullTok>>, <<StrTok("Gattociclo")>>}

\* Texts that are not JSON: empty, prose, a cut object, a trailing comma.
MalformedTexts ==
  { <<>>, <<WordTok>>, <<LBrace>>,
    <<LBrace, StrTok("italianName"), Colon, StrTok("Gattociclo")>>,
    <<LBrace, StrTok("italianName"), Colon, StrTok("Gattociclo"), Comma, RBrace>>,
    <<WordTok>> \o IdeaText(Str("Gattociclo"), Str("Cat-cycle"), Str("a bicycle with a cat's head")) }

Texts == WellFormedTexts \cup MalformedTexts

\* { candidates: [{ content: { parts: [part] } }] }
GeminiBody(part) ==
  Obj([candidates |-> Arr(<<Obj([content |-> Obj([parts |-> Arr(<<part>>)])])>>)])

\* Bodies of a 2xx answer of the text model.
GeminiOkBodies ==
  {NotJson, Null, Obj(<<>>), Obj([candidates |-> Arr(<<>>)]), GeminiBody(Obj(<<>>))}
    \cup {GeminiBody(Obj([text |-> Text(t)])) : t \in Texts}

\* Bodies of a non-2xx answer: { error: { message } } and degenerate shapes.
UpstreamMessages == {"quota exceeded"}
ErrorBodies ==
  {NotJson, Null, Obj(<<>>), Obj([error |-> Obj(<<>>)])}
    \cup {Obj([error |-> Obj([message |-> Str(m)])]) : m \in UpstreamMessages}

GeminiResponses ==
  {Response(TRUE, b) : b \in GeminiOkBodies} \cup {Response(FALSE, b) : b \in ErrorBodies}

Payloads == {"AAAA", "iVBORw0KGgo="}

\* Bodies of a 2xx answer of the image model.
ImagenOkBodies ==
  {NotJson, Null, Obj(<<>>), Obj([predictions |-> Arr(<<>>)]),
   Obj([predictions |-> Arr(<<Obj(<<>>)>>)]),
   Obj([predictions |-> Arr(<<Obj([bytesBase64Encoded |-> Str("")])>>)])}
    \cup {Obj([predictions |-> Arr(<<Obj([bytesBase64Encoded |-> Str(b)])>>)]) : b \in Payloads}

ImagenResponses ==
  {Response(TRUE, b) : b \in ImagenOkBodies} \cup {Response(FALSE, b) : b \in ErrorBodies}

Methods == {"POST", "GET", "DELETE"}
\* process.env.GOOGLE_API_KEY: unset, set to the empty string, or set.
ApiKeys == {Undefined, Str(""), Str("key")}
\* req.body: no body, a body without geminiPayload, a body with it.
Bodies == {Undefined, Obj(<<>>), Obj([geminiPayload |-> Obj([contents |-> Arr(<<>>)])])}

(***************************************************************************)
(* State of one invocation of the handler.                                 *)
(***************************************************************************)
VARIABLES
  method,                \* req.method
  apiKey,                \* process.env.GOOGLE_API_KEY
  body,                  \* req.body
  pc,                    \* where the handler is suspended
  stage,                 \* 0 before the first call, 1 text model, 2 image model
  i,                     \* withRetry's loop index
  requests,              \* the outbound fetch calls issued so far, in order
  attempts,              \* per stage, how each fetch settled, in order
  waits,                 \* per stage, the setTimeout delays waited, in order
  geminiResponse,        \* what withRetry returned in stage 1
  imagenResponse,        \* what withRetry returned in stage 2
  generatedName,
  generatedTranslation,
  finalImagePrompt,
  responses              \* what was sent through res.status(..).json(..)

handlerVars == <<method, apiKey, body, pc, stage, i, requests, attempts, waits,
                 geminiResponse, imagenResponse, generatedName, generatedTranslation,
                 finalImagePrompt, responses>>

(***************************************************************************)
(* State of one call of withRetry taken on its own, with the arguments     *)
(* maxRetries and delay given by the caller.                               *)
(***************************************************************************)
VARIABLES
  wrMaxRetries,          \* the argument maxRetries
  wrDelay,               \* the argument delay
  wrI,                   \* the loop index i
  wrPc,                  \* where the call is suspended
  wrAttempts,            \* how each fn() settled, in order
  wrWaits,               \* the setTimeout delays waited, in order
  wrResult               \* the value returned or the error thrown

retryVars == <<wrMaxRetries, wrDelay, wrI, wrPc, wrAttempts, wrWaits, wrResult>>

\* No call of withRetry on its own is under way.
RetryIdle ==
  /\ wrMaxRetries = maxRetries
  /\ wrDelay = delay
  /\ wrI = 0
  /\ wrPc = "idle"
  /\ wrAttempts = <<>>
  /\ wrWaits = <<>>
  /\ wrResult = Undefined

(***************************************************************************)
(* State of several invocations of the handler running concurrently on    *)
(* the one event loop.                                                     *)
(***************************************************************************)
\* The number of concurrent invocations.
NumInvocations == 2
Invocations == 1..NumInvocations

VARIABLES
  cMethod,               \* per invocation, req.method
  cPc,                   \* per invocation, where the handler is suspended
  cStage,                \* per invocation, the stage it is in
  frames,                \* per activation frame, the local variables
  cResponses,            \* per invocation, what was sent through its res
  cOwn                   \* per invocation, what its own fetches settled with

concVars == <<cMethod, cPc, cStage, frames, cResponses, cOwn>>

\* The local variables of a handler activation (lines 5, 33, 48-50, 70).
FreshFrame ==
  [i |-> 0,
   geminiResponse |-> Undefined,
   imagenResponse |-> Undefined,
   generatedName |-> Undefined,
   generatedTranslation |-> Undefined,
   finalImagePrompt |-> Undefined]

\* What the fetches of an invocation settled with: the rejections in the
\* current stage, the last error, and the responses of the two stages.
NothingYet ==
  [rejected |-> 0, lastError |-> "", gemini |-> Undefined, imagen |-> Undefined]

\* The invocations in the state pcs, with nothing done yet.
ConcStart(methods, pcs) ==
  /\ cMethod = methods
  /\ cPc = pcs
  /\ cStage = [a \in Invocations |-> 0]
  /\ frames = [f \in Invocations |-> FreshFrame]
  /\ cResponses = [a \in Invocations |-> <<>>]
  /\ cOwn = [a \in Invocations |-> NothingYet]

\* No concurrent invocation is under way.
ConcIdle ==
  ConcStart([a \in Invocations |-> "POST"], [a \in Invocations |-> "idle"])

(***************************************************************************)
(* State of the App component of the user interface.                       *)
(***************************************************************************)
Slots == {1, 2}

VARIABLES
  input,                 \* per slot, input1 / input2
  imageBase64,           \* per slot, image1Base64 / image2Base64
  pendingReads,          \* per slot, the fileToBase64 promises not yet settled
  resultName,
  resultTranslation,
  resultImage,
  isLoading,
  error,
  db,
  userId,
  gfPc,                  \* where the generateFusion call in flight is suspended
  gfCanSave,             \* db && userId as captured by the callback
  gfInputs,              \* input1, input2 as captured by the callback
  gfResponse,            \* the backend response of the last call
  gfSaved,               \* the addDoc calls of the last call
  calls,                 \* the generateFusion calls made
  backendRequests,       \* the fetches of /api/generate issued
  addDocCalls,           \* the addDoc calls issued
  lastDoc                \* the document of the last addDoc call

uiVars == <<input, imageBase64, pendingReads, resultName, resultTranslation, resultImage,
            isLoading, error, db, userId, gfPc, gfCanSave, gfInputs, gfResponse, gfSaved,
            calls, backendRequests, addDocCalls, lastDoc>>

InitialResultName == Str("Il Grande Nascosto")
InitialResultTranslation == Str("The Great Hidden One")

\* The component as mounted, with Firestore initialised (d) or not.
UiMounted(d) ==
  /\ input = [k \in Slots |-> Str("")]
  /\ imageBase64 = [k \in Slots |-> Null]
  /\ pendingReads = [k \in Slots |-> 0]
  /\ resultName = InitialResultName
  /\ resultTranslation = InitialResultTranslation
  /\ resultImage = Null
  /\ isLoading = FALSE
  /\ error = Null
  /\ db = d
  /\ userId = Null
  /\ gfPc = "idle"
  /\ gfCanSave = FALSE
  /\ gfInputs = <<Str(""), Str("")>>
  /\ gfResponse = Undefined
  /\ gfSaved = 0
  /\ calls = 0
  /\ backendRequests = 0
  /\ addDocCalls = 0
  /\ lastDoc = Undefined

\* The user interface is not in use.
UiIdle == UiMounted(Null)

\* The variables the handler leaves alone.
otherVars == <<retryVars, concVars, uiVars>>

vars == <<handlerVars, otherVars>>

Stages == {1, 2}

\* How a fetch settled: rejected with an error, or resolved with a response.
Rejected(msg) == [outcome |-> "rejected", message |-> msg]
Resolved == [outcome |-> "resolved", message |-> ""]
\* Variant of Api: the two endpoint URLs are exchanged.
ApiExchanged(s) == IF s = 1 THEN "imagen" ELSE "gemini"

\* The endpoint called in stage s (GEMINI_API_URL, IMAGEN_API_URL).
Api(s) == IF s = 1 THEN "gemini" ELSE "imagen"

\* The number of fetch calls issued to the endpoint of stage s.
Calls(s) == Cardinality({n \in DOMAIN requests : requests[n].api = Api(s)})

\* The handler has just been invoked with the request (m, k, b).
HandlerStart(m, k, b) ==
  /\ method = m
  /\ apiKey = k
  /\ body = b
  /\ pc = "start"
  /\ stage = 0
  /\ i = 0
  /\ requests = <<>>
  /\ attempts = [s \in Stages |-> <<>>]
  /\ waits = [s \in Stages |-> <<>>]
  /\ geminiResponse = Undefined
  /\ imagenResponse = Undefined
  /\ generatedName = Undefined
  /\ generatedTranslation = Undefined
  /\ finalImagePrompt = Undefined
  /\ responses = <<>>

Init ==
  /\ \E m \in Methods, k \in ApiKeys, b \in Bodies : HandlerStart(m, k, b)
  /\ RetryIdle
  /\ ConcIdle
  /\ UiIdle

\* withRetry line 9, i === maxRetries - 1, for the argument max.
IsLastAttemptOf(n, max) == n = max - 1

\* withRetry line 10, delay * Math.pow(2, i), for the argument d.
BackoffOf(n, d) == d * 2^n

\* withRetry line 5, i < maxRetries, for the argument max.
LoopContinuesOf(n, max) == n < max

\* Variant of IsLastAttempt: the last attempt is taken to be one further.
IsLastAttemptOffByOne(n) == n = maxRetries

\* withRetry line 9: the attempt with index n is the last one allowed.
IsLastAttempt(n) == IsLastAttemptOf(n, maxRetries)

\* Variant of Backoff: the same delay after every failed attempt.
BackoffConstant(n) == delay

\* Variant of Backoff: the exponent counts attempts from one.
BackoffFromOne(n) == delay * 2^(n + 1)

\* withRetry line 10: the delay waited after the failed attempt with index n.
Backoff(n) == BackoffOf(n, delay)

\* withRetry line 5: the loop condition.
LoopContinues(n) == LoopContinuesOf(n, maxRetries)

\* Variant of MethodRejected: only GET is turned away.
MethodRejectedGetOnly(m) == m = "GET"

\* req.method !== 'POST'
MethodRejected(m) == m # "POST"

\* Variant of KeyMissing: API_KEY === null.
KeyMissingStrictNull(k) == k = Null

\* !API_KEY
KeyMissing(k) == ~Truthy(k)

\* Variant of NoImageData: base64Data === null.
NoImageDataStrictNull(v) == v = Null

\* !base64Data
NoImageData(v) == ~Truthy(v)

\* e.message || 'An internal server error occurred.'
ErrorText(e) == IF e.message # "" THEN e.message ELSE InternalErrorMessage

\* res.status(st).json(b)
Send(st, b) == responses' = Append(responses, [status |-> st, body |-> b])

\* The outer catch: res.status(500).json({ error: ... }); the handler ends.
Catch(e) ==
  /\ Send(500, [error |-> Str(ErrorText(e))])
  /\ pc' = "done"

\* withRetry is entered for stage s and calls fn() for the first time.
StartStage(s, payload) ==
  /\ stage' = s
  /\ i' = 0
  /\ requests' = Append(requests, [api |-> Api(s), body |-> payload])
  /\ pc' = "fetching"

\* The error thrown for a non-2xx answer:
\*   const err = await response.json();
\*   throw new Error(`<prefix>${err.error.message}`);
UpstreamError(prefix, resp) ==
  LET err == ResponseJson(resp)
      m == Member(Member(err, "error"), "message")
  IN  IF IsThrown(m) THEN m ELSE Thrown("Error", prefix \o TemplateString(m))

\* Variant of JsonTextOf: the second candidate is read.
JsonTextOfSecondCandidate(geminiResult) ==
  OptMember(OptMember(OptMember(OptMember(OptMember(
    Member(geminiResult, "candidates"), 1), "content"), "parts"), 0), "text")

\* geminiResult.candidates?.[0]?.content?.parts?.[0]?.text
JsonTextOf(geminiResult) ==
  OptMember(OptMember(OptMember(OptMember(OptMember(
    Member(geminiResult, "candidates"), 0), "content"), "parts"), 0), "text")

\* Variant of ParseIdea: the three variables are declared without initial
\* values, so a throw leaves them undefined.
ParseIdeaNoInitialValues(geminiResult) ==
  LET parsedJson == JSONParse(JsonTextOf(geminiResult))
      n == Member(parsedJson, "italianName")
      t == Member(parsedJson, "englishTranslation")
      p == Member(parsedJson, "imagePrompt")
  IN  [name |-> IF IsThrown(n) THEN Undefined ELSE OrElse(n, FallbackName),
       translation |-> IF IsThrown(n) \/ IsThrown(t) THEN Undefined
                       ELSE OrElse(t, FallbackTranslation),
       imagePrompt |-> IF IsThrown(n) \/ IsThrown(t) \/ IsThrown(p) THEN Undefined
                       ELSE OrElse(p, FallbackImagePrompt)]

\* The inner try/catch: the three variables start at the fallback values and
\* are assigned in order; a throw leaves the remaining ones at the fallback.
ParseIdea(geminiResult) ==
  LET parsedJson == JSONParse(JsonTextOf(geminiResult))
      n == Member(parsedJson, "italianName")
      t == Member(parsedJson, "englishTranslation")
      p == Member(parsedJson, "imagePrompt")
  IN  [name |-> IF IsThrown(n) THEN FallbackName ELSE OrElse(n, FallbackName),
       translation |-> IF IsThrown(n) \/ IsThrown(t) THEN FallbackTranslation
                       ELSE OrElse(t, FallbackTranslation),
       imagePrompt |-> IF IsThrown(n) \/ IsThrown(t) \/ IsThrown(p) THEN FallbackImagePrompt
                       ELSE OrElse(p, FallbackImagePrompt)]

\* imagenResult.predictions?.[0]?.bytesBase64Encoded
Base64DataOf(imagenResult) ==
  OptMember(OptMember(Member(imagenResult, "predictions"), 0), "bytesBase64Encoded")

\* Variant of FusionResult: the payload is sent without the data-URI prefix.
FusionResultRawImage(name, translation, base64Data) ==
  [name |-> name, translation |-> translation, imageUrl |-> base64Data]

\* The body of the 200 response.
FusionResult(name, translation, base64Data) ==
  [name |-> name,
   translation |-> translation,
   imageUrl |-> Str(DataUriPrefix \o TemplateString(base64Data))]

(***************************************************************************)
(* The handler, one action per stretch of code between two awaits.         *)
(***************************************************************************)
\* From the entry of the handler to the first fetch of stage 1.
HandlerEntry ==
  /\ pc = "start"
  /\ IF MethodRejected(method)
     THEN /\ Send(405, [error |-> Str(MethodNotAllowedMessage)])
          /\ pc' = "done"
          /\ UNCHANGED <<stage, i, requests>>
     ELSE IF KeyMissing(apiKey)
     THEN /\ Send(500, [error |-> Str(KeyMissingMessage)])
          /\ pc' = "done"
          /\ UNCHANGED <<stage, i, requests>>
     ELSE LET geminiPayload == Member(body, "geminiPayload")
          IN  IF IsThrown(geminiPayload)
              THEN \* the destructuring throws outside the try: the handler
                   \* rejects without having sent a response
                   /\ pc' = "crashed"
                   /\ UNCHANGED <<stage, i, requests, responses>>
              ELSE /\ StartStage(1, geminiPayload)
                   /\ UNCHANGED responses
  /\ UNCHANGED <<method, apiKey, body, attempts, waits, geminiResponse, imagenResponse,
                 generatedName, generatedTranslation, finalImagePrompt>>
  /\ UNCHANGED otherVars

\* The fetch in flight rejects: withRetry's catch block.
FetchRejects ==
  /\ pc = "fetching"
  /\ \E msg \in NetErrors :
       /\ attempts' = [attempts EXCEPT ![stage] = Append(@, Rejected(msg))]
       /\ IF IsLastAttempt(i)
          THEN /\ Catch(Thrown("TypeError", msg))
               /\ UNCHANGED waits
          ELSE /\ waits' = [waits EXCEPT ![stage] = Append(@, Backoff(i))]
               /\ pc' = "backoff"
               /\ UNCHANGED responses
  /\ UNCHANGED <<method, apiKey, body, stage, i, requests, geminiResponse, imagenResponse,
                 generatedName, generatedTranslation, finalImagePrompt>>
  /\ UNCHANGED otherVars

\* The backoff timer fires: i++, the loop condition, and the next fn().
BackoffElapsed ==
  /\ pc = "backoff"
  /\ i' = i + 1
  /\ IF LoopContinues(i + 1)
     THEN /\ requests' = Append(requests, requests[Len(requests)])
          /\ pc' = "fetching"
          /\ UNCHANGED responses
     ELSE \* the loop ends and withRetry returns undefined; the handler
          \* reads .ok of it
          /\ Catch(Member(Undefined, "ok"))
          /\ UNCHANGED requests
  /\ UNCHANGED <<method, apiKey, body, stage, attempts, waits, geminiResponse,
                 imagenResponse, generatedName, generatedTranslation, finalImagePrompt>>
  /\ UNCHANGED otherVars

\* The fetch of stage 1 resolves: withRetry returns the response, whatever
\* its status, and the handler runs up to the first fetch of stage 2.
GeminiResolves ==
  /\ pc = "fetching"
  /\ stage = 1
  /\ \E resp \in GeminiResponses :
       /\ attempts' = [attempts EXCEPT ![1] = Append(@, Resolved)]
       /\ geminiResponse' = resp
       /\ IF ~resp.ok
          THEN /\ Catch(UpstreamError("Gemini API Error: ", resp))
               /\ UNCHANGED <<stage, i, requests, generatedName, generatedTranslation,
                              finalImagePrompt>>
          ELSE LET geminiResult == ResponseJson(resp)
               IN  IF IsThrown(geminiResult)
                   THEN /\ Catch(geminiResult)
                        /\ UNCHANGED <<stage, i, requests, generatedName,
                                       generatedTranslation, finalImagePrompt>>
                   ELSE LET idea == ParseIdea(geminiResult)
                        IN  /\ generatedName' = idea.name
                            /\ generatedTranslation' = idea.translation
                            /\ finalImagePrompt' = idea.imagePrompt
                            /\ StartStage(2, ImagenPayload(idea.imagePrompt))
                            /\ UNCHANGED responses
  /\ UNCHANGED <<method, apiKey, body, waits, imagenResponse>>
  /\ UNCHANGED otherVars

\* The fetch of stage 2 resolves: the handler runs to its end.
ImagenResolves ==
  /\ pc = "fetching"
  /\ stage = 2
  /\ \E resp \in ImagenResponses :
       /\ attempts' = [attempts EXCEPT ![2] = Append(@, Resolved)]
       /\ imagenResponse' = resp
       /\ IF ~resp.ok
          THEN Catch(UpstreamError("Imagen API Error: ", resp))
          ELSE LET imagenResult == ResponseJson(resp)
                   base64Data == Base64DataOf(imagenResult)
               IN  IF IsThrown(imagenResult) THEN Catch(imagenResult)
                   ELSE IF IsThrown(base64Data) THEN Catch(base64Data)
                   ELSE IF NoImageData(base64Data) THEN Catch(Thrown("Error", NoDataMessage))
                   ELSE /\ Send(200, FusionResult(generatedName, generatedTranslation,
                                                  base64Data))
                        /\ pc' = "done"
  /\ UNCHANGED <<method, apiKey, body, stage, i, requests, waits, geminiResponse,
                 generatedName, generatedTranslation, finalImagePrompt>>
  /\ UNCHANGED otherVars

Next ==
  \/ HandlerEntry
  \/ FetchRejects
  \/ BackoffElapsed
  \/ GeminiResolves
  \/ ImagenResolves

Spec == Init /\ [][Next]_vars

(***************************************************************************)
(* withRetry on its own: one call withRetry(fn, wrMaxRetries, wrDelay).    *)
(***************************************************************************)
\* The largest maxRetries argument explored; the smallest is -1.
MaxRetriesArg == 3
RetryArgs == -1..MaxRetriesArg
DelayArgs == {delay, 250}

\* The values fn() resolves with.
FnValues == {Str("first"), Str("second")}

\* How fn() settled: resolved with a value, or rejected with an error.
FnResolved(v) == [outcome |-> "resolved", value |-> v]
FnRejected(msg) == [outcome |-> "rejected", value |-> Thrown("Error", msg)]

\* The loop condition at index n: the next fn() is called, or the loop ends
\* and the async function returns undefined.
RetryLoop(n) ==
  IF LoopContinuesOf(n, wrMaxRetries)
  THEN /\ wrPc' = "attempt"
       /\ wrResult' = wrResult
  ELSE /\ wrPc' = "returned"
       /\ wrResult' = Undefined

InitRetry ==
  /\ HandlerStart("POST", Str("key"), Undefined)
  /\ wrMaxRetries \in RetryArgs
  /\ wrDelay \in DelayArgs
  /\ wrI = 0
  /\ wrPc = "called"
  /\ wrAttempts = <<>>
  /\ wrWaits = <<>>
  /\ wrResult = Undefined
  /\ ConcIdle
  /\ UiIdle

\* withRetry is entered: let i = 0 and the first loop condition.
RetryEnter ==
  /\ wrPc = "called"
  /\ RetryLoop(0)
  /\ UNCHANGED <<wrMaxRetries, wrDelay, wrI, wrAttempts, wrWaits>>
  /\ UNCHANGED <<handlerVars, concVars, uiVars>>

\* fn() resolves: return await fn().
RetryFnResolves ==
  /\ wrPc = "attempt"
  /\ \E v \in FnValues :
       /\ wrAttempts' = Append(wrAttempts, FnResolved(v))
       /\ wrResult' = v
  /\ wrPc' = "returned"
  /\ UNCHANGED <<wrMaxRetries, wrDelay, wrI, wrWaits>>
  /\ UNCHANGED <<handlerVars, concVars, uiVars>>

\* fn() rejects: the catch block rethrows or starts the backoff timer.
RetryFnRejects ==
  /\ wrPc = "attempt"
  /\ \E msg \in NetErrors :
       /\ wrAttempts' = Append(wrAttempts, FnRejected(msg))
       /\ IF IsLastAttemptOf(wrI, wrMaxRetries)
          THEN /\ wrPc' = "threw"
               /\ wrResult' = Thrown("Error", msg)
               /\ UNCHANGED wrWaits
          ELSE /\ wrPc' = "wait"
               /\ wrWaits' = Append(wrWaits, BackoffOf(wrI, wrDelay))
               /\ UNCHANGED wrResult
  /\ UNCHANGED <<wrMaxRetries, wrDelay, wrI>>
  /\ UNCHANGED <<handlerVars, concVars, uiVars>>

\* The backoff timer fires: i++ and the loop condition.
RetryBackoffElapsed ==
  /\ wrPc = "wait"
  /\ wrI' = wrI + 1
  /\ RetryLoop(wrI + 1)
  /\ UNCHANGED <<wrMaxRetries, wrDelay, wrAttempts, wrWaits>>
  /\ UNCHANGED <<handlerVars, concVars, uiVars>>

NextRetry ==
  \/ RetryEnter
  \/ RetryFnResolves
  \/ RetryFnRejects
  \/ RetryBackoffElapsed

SpecRetry == InitRetry /\ [][NextRetry]_vars

(***************************************************************************)
(* Concurrent invocations: the handler's steps, taken by invocation a on   *)
(* the local variables of its activation frame.  The credential is         *)
(* configured and every request carries a geminiPayload.                   *)
(***************************************************************************)
\* Variant of FrameOf: the local variables are declared at module level, so
\* that every invocation works on the same ones.
FrameOfModuleLevel(a) == 1

\* The activation frame of invocation a: `let i` (line 5) and the handler's
\* const and let declarations are made anew by every call.
FrameOf(a) == a

\* The local variables invocation a reads and writes.
LocalsOf(a) == frames[FrameOf(a)]

ConcApiKey == Str("key")
ConcBody == Obj([geminiPayload |-> Obj([contents |-> Arr(<<>>)])])

\* The upstream answers met by the concurrent invocations.
ConcGeminiResponses ==
  { Response(TRUE, GeminiBody(Obj([text |-> Text(IdeaText(Str("Gattociclo"),
                Str("Cat-cycle"), Str("a bicycle with a cat's head")))]))),
    Response(TRUE, GeminiBody(Obj([text |-> Text(<<WordTok>>)]))),
    Response(FALSE, Obj([error |-> Obj([message |-> Str("quota exceeded")])])) }

ConcImagenResponses ==
  { Response(TRUE, Obj([predictions |-> Arr(<<Obj([bytesBase64Encoded |-> Str("AAAA")])>>)])),
    Response(TRUE, Obj(<<>>)),
    Response(FALSE, Obj([error |-> Obj([message |-> Str("quota exceeded")])])) }

\* res.status(st).json(b) of invocation a; its handler ends.
ConcSend(a, st, b) ==
  /\ cResponses' = [cResponses EXCEPT ![a] = Append(@, [status |-> st, body |-> b])]
  /\ cPc' = [cPc EXCEPT ![a] = "done"]

\* The outer catch of invocation a.
ConcCatch(a, e) == ConcSend(a, 500, [error |-> Str(ErrorText(e))])

InitConc ==
  /\ HandlerStart("POST", Str("key"), Undefined)
  /\ RetryIdle
  /\ UiIdle
  /\ \E methods \in [Invocations -> {"POST", "GET"}] :
       ConcStart(methods, [a \in Invocations |-> "start"])

\* Invocation a runs from the entry of the handler to its first fetch.
ConcEntry(a) ==
  /\ cPc[a] = "start"
  /\ IF MethodRejected(cMethod[a])
     THEN /\ ConcSend(a, 405, [error |-> Str(MethodNotAllowedMessage)])
          /\ UNCHANGED <<cStage, frames>>
     ELSE IF KeyMissing(ConcApiKey)
     THEN /\ ConcSend(a, 500, [error |-> Str(KeyMissingMessage)])
          /\ UNCHANGED <<cStage, frames>>
     ELSE /\ ~IsThrown(Member(ConcBody, "geminiPayload"))
          /\ cStage' = [cStage EXCEPT ![a] = 1]
          /\ frames' = [frames EXCEPT ![FrameOf(a)].i = 0]
          /\ cPc' = [cPc EXCEPT ![a] = "fetching"]
          /\ UNCHANGED cResponses
  /\ UNCHANGED <<cMethod, cOwn>>
  /\ UNCHANGED <<handlerVars, retryVars, uiVars>>

\* The fetch of invocation a rejects.
ConcFetchRejects(a) ==
  /\ cPc[a] = "fetching"
  /\ \E msg \in NetErrors :
       /\ cOwn' = [cOwn EXCEPT ![a].rejected = @ + 1, ![a].lastError = msg]
       /\ IF IsLastAttempt(LocalsOf(a).i)
          THEN ConcCatch(a, Thrown("TypeError", msg))
          ELSE /\ cPc' = [cPc EXCEPT ![a] = "backoff"]
               /\ UNCHANGED cResponses
  /\ UNCHANGED <<cMethod, cStage, frames>>
  /\ UNCHANGED <<handlerVars, retryVars, uiVars>>

\* The backoff timer of invocation a fires.
ConcBackoffElapsed(a) ==
  /\ cPc[a] = "backoff"
  /\ frames' = [frames EXCEPT ![FrameOf(a)].i = @ + 1]
  /\ IF LoopContinues(LocalsOf(a).i + 1)
     THEN /\ cPc' = [cPc EXCEPT ![a] = "fetching"]
          /\ UNCHANGED cResponses
     ELSE ConcCatch(a, Member(Undefined, "ok"))
  /\ UNCHANGED <<cMethod, cStage, cOwn>>
  /\ UNCHANGED <<handlerVars, retryVars, uiVars>>

\* The stage-1 fetch of invocation a resolves.
ConcGeminiResolves(a) ==
  /\ cPc[a] = "fetching"
  /\ cStage[a] = 1
  /\ \E resp \in ConcGeminiResponses :
       LET geminiResult == ResponseJson(resp)
           idea == ParseIdea(geminiResult)
       IN  IF ~resp.ok
           THEN /\ ConcCatch(a, UpstreamError("Gemini API Error: ", resp))
                /\ frames' = [frames EXCEPT ![FrameOf(a)].geminiResponse = resp]
                /\ cOwn' = [cOwn EXCEPT ![a].gemini = resp]
                /\ UNCHANGED cStage
           ELSE IF IsThrown(geminiResult)
           THEN /\ ConcCatch(a, geminiResult)
                /\ frames' = [frames EXCEPT ![FrameOf(a)].geminiResponse = resp]
                /\ cOwn' = [cOwn EXCEPT ![a].gemini = resp]
                /\ UNCHANGED cStage
           ELSE /\ frames' = [frames EXCEPT ![FrameOf(a)] =
                                [@ EXCEPT !.geminiResponse = resp,
                                          !.generatedName = idea.name,
                                          !.generatedTranslation = idea.translation,
                                          !.finalImagePrompt = idea.imagePrompt,
                                          !.i = 0]]
                /\ cOwn' = [cOwn EXCEPT ![a].gemini = resp, ![a].rejected = 0]
                /\ cStage' = [cStage EXCEPT ![a] = 2]
                /\ UNCHANGED <<cPc, cResponses>>
  /\ UNCHANGED cMethod
  /\ UNCHANGED <<handlerVars, retryVars, uiVars>>

\* The stage-2 fetch of invocation a resolves.
ConcImagenResolves(a) ==
  /\ cPc[a] = "fetching"
  /\ cStage[a] = 2
  /\ \E resp \in ConcImagenResponses :
       LET imagenResult == ResponseJson(resp)
           base64Data == Base64DataOf(imagenResult)
       IN  /\ frames' = [frames EXCEPT ![FrameOf(a)].imagenResponse = resp]
           /\ cOwn' = [cOwn EXCEPT ![a].imagen = resp]
           /\ IF ~resp.ok THEN ConcCatch(a, UpstreamError("Imagen API Error: ", resp))
              ELSE IF IsThrown(imagenResult) THEN ConcCatch(a, imagenResult)
              ELSE IF IsThrown(base64Data) THEN ConcCatch(a, base64Data)
              ELSE IF NoImageData(base64Data) THEN ConcCatch(a, Thrown("Error", NoDataMessage))
              ELSE ConcSend(a, 200, FusionResult(LocalsOf(a).generatedName,
                                                 LocalsOf(a).generatedTranslation,
                                                 base64Data))
  /\ UNCHANGED <<cMethod, cStage>>
  /\ UNCHANGED <<handlerVars, retryVars, uiVars>>

NextConc ==
  \E a \in Invocations :
    \/ ConcEntry(a)
    \/ ConcFetchRejects(a)
    \/ ConcBackoffElapsed(a)
    \/ ConcGeminiResolves(a)
    \/ ConcImagenResolves(a)

SpecConc == InitConc /\ [][NextConc]_vars

(***************************************************************************)
(* The user interface: the App component's generateFusion callback and     *)
(* input handlers.  State updates are taken as committed before the next   *)
(* event is handled; generateFusion is the callback of the latest render,  *)
(* called in any state.                                                    *)
(***************************************************************************)
MaxCalls == 2
MaxPendingReads == 1

ValidationMessage == "Please provide at least one word or image to start the fusion."
UnknownBackendError == "The backend function failed with an unknown error."
TooLargeMessage == "Image file is too large. Max 2MB."
ProcessFailedMessage == "Failed to process image."
ServerErrorMessage(m) == "A server error occurred: " \o m \o ". Please check your Vercel logs."

\* What the user types, the files the user picks, the data a file reads as.
TextValues == {"", "cat"}
Files == {"none", "small", "tooLarge"}
FileData == Str("aGVsbG8=")

\* What fetch('/api/generate') resolves with: the relay's result, the relay's
\* error, or a platform error page that is not JSON.
SampleResult ==
  Obj([name |-> Str("Gattociclo"), translation |-> Str("Cat-cycle"),
       imageUrl |-> Str(DataUriPrefix \o "AAAA")])
UiBackendResponses ==
  { Response(TRUE, SampleResult),
    Response(FALSE, Obj([error |-> Str(KeyMissingMessage)])),
    Response(FALSE, NotJson) }
UiNetError == "Failed to fetch"
AddDocError == "Missing or insufficient permissions."

\* const inputReady = (input1 || image1Base64) || (input2 || image2Base64)
InputReady == OrElse(OrElse(input[1], imageBase64[1]), OrElse(input[2], imageBase64[2]))

\* Variant of UiOutcome: the body is read as the result whatever response.ok is.
UiOutcomeNoOkCheck(resp) ==
  LET result == ResponseJson(resp)
      name == Member(result, "name")
  IN  IF IsThrown(name) THEN name ELSE result

\* The try block from the resolved fetch to the result: the result object, or
\* what is thrown on the way.
UiOutcome(resp) ==
  IF ~resp.ok
    THEN LET err == ResponseJson(resp)
             msg == Member(err, "error")
         IN  IF IsThrown(msg) THEN msg
             ELSE Thrown("Error", TemplateString(OrElse(msg, Str(UnknownBackendError))))
    ELSE LET result == ResponseJson(resp)
             name == Member(result, "name")
         IN  IF IsThrown(name) THEN name ELSE result

\* Variant of LoadingAfterCall: setIsLoading(false) as the last statement of
\* the try block instead of a finally block.
LoadingAfterCallNoFinally(threw) == threw

\* isLoading once the call has left try/catch/finally.
LoadingAfterCall(threw) == FALSE

\* catch (e) { setError(...) } finally { setIsLoading(false) }
UiCatch(e) ==
  /\ error' = Str(ServerErrorMessage(e.message))
  /\ isLoading' = LoadingAfterCall(TRUE)
  /\ gfPc' = "idle"

\* The try block ends without a throw; finally { setIsLoading(false) }
UiFinish ==
  /\ isLoading' = LoadingAfterCall(FALSE)
  /\ gfPc' = "idle"
  /\ UNCHANGED error

\* The document handed to addDoc (the timestamp is the server's).
HistoryDoc(result) ==
  Obj([name |-> Member(result, "name"), translation |-> Member(result, "translation"),
       prompt |-> Str("Generated via backend"),
       input1 |-> gfInputs[1], input2 |-> gfInputs[2], userId |-> Str("uid")])

InitUI ==
  /\ HandlerStart("POST", Str("key"), Undefined)
  /\ RetryIdle
  /\ ConcIdle
  /\ \E d \in {Null, Obj([app |-> Str("firestore")])} : UiMounted(d)

backendVars == <<handlerVars, retryVars, concVars>>
slotVars == <<input, imageBase64, pendingReads>>
resultVars == <<resultName, resultTranslation, resultImage>>
callVars == <<gfPc, gfCanSave, gfInputs, gfResponse, gfSaved, backendRequests>>
saveVars == <<addDocCalls, lastDoc>>

\* signInAnonymously(...).then(cred => setUserId(cred.user.uid))
SignedIn ==
  /\ Truthy(db)
  /\ userId = Null
  /\ userId' = Str("uid")
  /\ UNCHANGED <<slotVars, resultVars, isLoading, error, db, callVars, calls, saveVars>>
  /\ UNCHANGED backendVars

\* generateFusion(isReroll, useRandom) up to its first await; useRandom only
\* selects the wording of the payload, which the component does not keep.
GenerateFusion(isReroll, useRandom) ==
  /\ calls < MaxCalls
  /\ calls' = calls + 1
  /\ IF isLoading
       THEN UNCHANGED <<resultVars, isLoading, error, callVars>>
       ELSE /\ resultImage' = Null
            /\ UNCHANGED <<resultName, resultTranslation>>
            /\ gfSaved' = 0
            /\ gfResponse' = Undefined
            /\ IF ~Truthy(InputReady) /\ ~isReroll
                 THEN /\ error' = Str(ValidationMessage)
                      /\ isLoading' = FALSE
                      /\ UNCHANGED <<gfPc, gfCanSave, gfInputs, backendRequests>>
                 ELSE /\ error' = Null
                      /\ isLoading' = TRUE
                      /\ backendRequests' = backendRequests + 1
                      /\ gfCanSave' = (Truthy(db) /\ Truthy(userId))
                      /\ gfInputs' = <<input[1], input[2]>>
                      /\ gfPc' = "fetching"
  /\ UNCHANGED <<slotVars, db, userId, saveVars>>
  /\ UNCHANGED backendVars

\* await fetch('/api/generate', ...) rejects.
BackendRejects ==
  /\ gfPc = "fetching"
  /\ UiCatch(Thrown("TypeError", UiNetError))
  /\ UNCHANGED <<slotVars, resultVars, db, userId, gfCanSave, gfInputs, gfResponse, gfSaved,
                 backendRequests, calls, saveVars>>
  /\ UNCHANGED backendVars

\* await fetch('/api/generate', ...) resolves; the call runs to the await of
\* addDoc or to its end.
BackendResponds(resp) ==
  /\ gfPc = "fetching"
  /\ gfResponse' = resp
  /\ LET result == UiOutcome(resp)
     IN  IF IsThrown(result)
           THEN /\ UiCatch(result)
                /\ UNCHANGED <<resultVars, gfSaved, saveVars>>
           ELSE /\ resultName' = Member(result, "name")
                /\ resultTranslation' = Member(result, "translation")
                /\ resultImage' = Member(result, "imageUrl")
                /\ IF gfCanSave
                     THEN /\ addDocCalls' = addDocCalls + 1
                          /\ lastDoc' = HistoryDoc(result)
                          /\ gfSaved' = gfSaved + 1
                          /\ gfPc' = "addDoc"
                          /\ UNCHANGED <<isLoading, error>>
                     ELSE /\ UiFinish
                          /\ UNCHANGED <<gfSaved, saveVars>>
  /\ UNCHANGED <<slotVars, db, userId, gfCanSave, gfInputs, backendRequests, calls>>
  /\ UNCHANGED backendVars

\* await addDoc(...) resolves.
AddDocResolves ==
  /\ gfPc = "addDoc"
  /\ UiFinish
  /\ UNCHANGED <<slotVars, resultVars, db, userId, gfCanSave, gfInputs, gfResponse, gfSaved,
                 backendRequests, calls, saveVars>>
  /\ UNCHANGED backendVars

\* await addDoc(...) rejects.
AddDocRejects ==
  /\ gfPc = "addDoc"
  /\ UiCatch(Thrown("FirebaseError", AddDocError))
  /\ UNCHANGED <<slotVars, resultVars, db, userId, gfCanSave, gfInputs, gfResponse, gfSaved,
                 backendRequests, calls, saveVars>>
  /\ UNCHANGED backendVars

\* The text input of slot k is enabled: disabled={isLoading || !!imageBase64}
TextEnabled(k) == ~isLoading /\ ~Truthy(imageBase64[k])

\* The file input of slot k is enabled: disabled={isLoading || !!input}
FileEnabled(k) == ~isLoading /\ ~Truthy(input[k])

\* handleTextChange(e, setInput, setImageBase64) on slot k, e.target.value = v
handleTextChange(k, v) ==
  /\ TextEnabled(k)
  /\ input' = [input EXCEPT ![k] = Str(v)]
  /\ imageBase64' = IF Truthy(Str(v)) THEN [imageBase64 EXCEPT ![k] = Null] ELSE imageBase64
  /\ UNCHANGED <<pendingReads, resultVars, isLoading, error, db, userId, callVars, calls, saveVars>>
  /\ UNCHANGED backendVars

\* handleImageChange(e, setBase64, setTextInput) on slot k, e.target.files[0] = f
handleImageChange(k, f) ==
  /\ FileEnabled(k)
  /\ f = "small" => pendingReads[k] < MaxPendingReads
  /\ CASE f = "none" ->
            /\ imageBase64' = [imageBase64 EXCEPT ![k] = Null]
            /\ UNCHANGED <<input, pendingReads, error>>
       [] f = "tooLarge" ->
            /\ error' = Str(TooLargeMessage)
            /\ UNCHANGED <<input, imageBase64, pendingReads>>
       [] OTHER ->
            /\ error' = Null
            /\ imageBase64' = [imageBase64 EXCEPT ![k] = Null]
            /\ input' = [input EXCEPT ![k] = Str("")]
            /\ pendingReads' = [pendingReads EXCEPT ![k] = @ + 1]
  /\ UNCHANGED <<resultVars, isLoading, db, userId, callVars, calls, saveVars>>
  /\ UNCHANGED backendVars

\* reader.onload: fileToBase64(file) resolves, .then(setBase64)
FileReadResolves(k) ==
  /\ pendingReads[k] > 0
  /\ pendingReads' = [pendingReads EXCEPT ![k] = @ - 1]
  /\ imageBase64' = [imageBase64 EXCEPT ![k] = FileData]
  /\ UNCHANGED <<input, resultVars, isLoading, error, db, userId, callVars, calls, saveVars>>
  /\ UNCHANGED backendVars

\* reader.onerror: fileToBase64(file) rejects, .catch(() => setError(...))
FileReadRejects(k) ==
  /\ pendingReads[k] > 0
  /\ pendingReads' = [pendingReads EXCEPT ![k] = @ - 1]
  /\ error' = Str(ProcessFailedMessage)
  /\ UNCHANGED <<input, imageBase64, resultVars, isLoading, db, userId, callVars, calls, saveVars>>
  /\ UNCHANGED backendVars

\* handleClearInputs, behind a button with disabled={isLoading}
handleClearInputs ==
  /\ ~isLoading
  /\ input' = [k \in Slots |-> Str("")]
  /\ imageBase64' = [k \in Slots |-> Null]
  /\ resultName' = InitialResultName
  /\ resultTranslation' = InitialResultTranslation
  /\ resultImage' = Null
  /\ error' = Null
  /\ UNCHANGED <<pendingReads, isLoading, db, userId, callVars, calls, saveVars>>
  /\ UNCHANGED backendVars

BackendSettles == BackendRejects \/ \E resp \in UiBackendResponses : BackendResponds(resp)
AddDocSettles == AddDocResolves \/ AddDocRejects

NextUI ==
  \/ SignedIn
  \/ \E isReroll \in BOOLEAN, useRandom \in BOOLEAN : GenerateFusion(isReroll, useRandom)
  \/ BackendRejects
  \/ \E resp \in UiBackendResponses : BackendResponds(resp)
  \/ AddDocResolves
  \/ AddDocRejects
  \/ \E k \in Slots, v \in TextValues : handleTextChange(k, v)
  \/ \E k \in Slots, f \in Files : handleImageChange(k, f)
  \/ \E k \in Slots : FileReadResolves(k)
  \/ \E k \in Slots : FileReadRejects(k)
  \/ handleClearInputs

SpecUI == InitUI /\ [][NextUI]_vars

\* Every awaited promise of a call in flight settles.
SpecUIFair == SpecUI /\ WF_vars(BackendSettles) /\ WF_vars(AddDocSettles)


(***************************************************************************)
(* Properties.                                                             *)
(***************************************************************************)
\* The outcomes of the fetches of stage s, in order.
Outcomes(s) == [n \in DOMAIN attempts[s] |-> attempts[s][n].outcome]

\* k rejections in a row.
RejectedTimes(k) == [n \in 1..k |-> "rejected"]

\* What withRetry returned in stage s.
StageResponse(s) == IF s = 1 THEN geminiResponse ELSE imagenResponse

\* A response was received from the endpoint of stage s and it is not 2xx.
NonOkAnswer(s) == StageResponse(s) # Undefined /\ ~StageResponse(s).ok

\* C1: when the endpoint of stage 1 or stage 2 answers with a non-2xx status,
\* the call is re-issued, so that an error is surfaced to the inbound caller
\* only once maxRetries (3) calls were issued for that stage.
C1_NonOkStatusRetried ==
  \A s \in Stages :
    (NonOkAnswer(s) /\ responses # <<>>) => Calls(s) = 3

TextAbsentBodies ==
  {Null, Obj(<<>>), Obj([candidates |-> Arr(<<>>)]), GeminiBody(Obj(<<>>))}

\* 2xx bodies of the text model whose first candidate's text is not JSON.
TextNotJsonBodies == {GeminiBody(Obj([text |-> Text(t)])) : t \in MalformedTexts}

\* Stage 1 returned 2xx and the text is absent or is not valid JSON.
Stage1TextUnusable ==
  /\ geminiResponse # Undefined
  /\ geminiResponse.ok
  /\ geminiResponse.body \in TextAbsentBodies \cup TextNotJsonBodies

\* The 2xx body of the image model that carries the payload b.
PayloadBody(b) == Obj([predictions |-> Arr(<<Obj([bytesBase64Encoded |-> Str(b)])>>)])

\* Stage 2 returned 2xx with a payload.
Stage2Delivered ==
  /\ imagenResponse # Undefined
  /\ imagenResponse.ok
  /\ \E b \in Payloads : imagenResponse.body = PayloadBody(b)

\* C4: when stage 1 returns 2xx but the first candidate's text is absent or is
\* not valid JSON, the relay goes on to stage 2 and every image call carries
\* the prompt built from the fixed fallback imagePrompt; a response, if any,
\* is sent only after stage 2 and is an error only if stage 2 did not deliver.
C4_ParseFailureRecovered ==
  Stage1TextUnusable =>
    /\ stage = 2
    /\ Calls(2) >= 1
    /\ \A n \in DOMAIN requests :
         requests[n].api = "imagen" =>
           requests[n].body.fields.instances.fields.prompt =
             Str("Highly cinematic, detailed, and artistic illustration of: A surreal hybrid creature, vibrant colors, baroque illustration, octane render.. Baroque style, golden ratio, dramatic lighting.")
    /\ responses # <<>> =>
         /\ attempts[2] # <<>>
         /\ Stage2Delivered => responses[1].status = 200

\* The text of stage 1 was not JSON and the operation still answered 200.
C4_Witness ==
  /\ geminiResponse # Undefined
  /\ geminiResponse.ok
  /\ geminiResponse.body = GeminiBody(Obj([text |-> Text(<<WordTok>>)]))
  /\ Calls(2) = 1
  /\ responses # <<>> /\ responses[1].status = 200

\* C5 as stated: with the stage-1 text absent or unparsable and stage 2
\* successful, the result has name "Unnamed Creation" and translation
\* "The Unnamed Creation".
C5_Original ==
  (Stage1TextUnusable /\ responses # <<>> /\ responses[1].status = 200) =>
    /\ responses[1].body.name = Str("Unnamed Creation")
    /\ responses[1].body.translation = Str("The Unnamed Creation")

\* C5 as amended: with the stage-1 text absent or unparsable and stage 2
\* successful, the result has name "Il Creato Senza Nome" and translation
\* "The Unnamed Creation".
C5_FallbackResult ==
  (Stage1TextUnusable /\ responses # <<>> /\ responses[1].status = 200) =>
    /\ responses[1].body.name = Str("Il Creato Senza Nome")
    /\ responses[1].body.translation = Str("The Unnamed Creation")

\* The first candidate had no text and the operation answered 200.
C5_Witness ==
  /\ geminiResponse # Undefined
  /\ geminiResponse.ok
  /\ geminiResponse.body = GeminiBody(Obj(<<>>))
  /\ responses # <<>> /\ responses[1].status = 200

\* C6: with no API credential configured, a POST issues no outbound call, for
\* every request body, and is answered with the configuration error alone.
C6_MissingKeyNoCalls ==
  (method = "POST" /\ apiKey \in {Undefined, Str("")}) =>
    /\ requests = <<>>
    /\ pc \in {"start", "done"}
    /\ pc = "done" =>
         responses = <<[status |-> 500,
                        body |-> [error |-> Str("API key not configured.")]]>>

\* A POST with a payload was answered while no key was configured.
C6_Witness ==
  /\ method = "POST"
  /\ apiKey = Undefined
  /\ body # Undefined /\ "geminiPayload" \in DOMAIN body.fields
  /\ pc = "done"
  /\ responses # <<>>

\* C7: a request whose method is not POST is answered 405 and nothing else:
\* no outbound call and no other response, whatever the key and the body.
C7_NonPostRejected ==
  method # "POST" =>
    /\ requests = <<>>
    /\ pc \in {"start", "done"}
    /\ pc = "done" =>
         responses = <<[status |-> 405,
                        body |-> [error |-> Str("Method Not Allowed")]]>>

\* A DELETE with the key configured and a payload was answered.
C7_Witness ==
  /\ method = "DELETE"
  /\ apiKey = Str("key")
  /\ body # Undefined /\ "geminiPayload" \in DOMAIN body.fields
  /\ pc = "done"
  /\ responses # <<>>

\* 2xx bodies of the image model whose first prediction carries no payload.
NoPayloadBodies ==
  {Obj(<<>>), Obj([predictions |-> Arr(<<>>)]), Obj([predictions |-> Arr(<<Obj(<<>>)>>)]),
   PayloadBody("")}

\* Stage 2 returned 2xx without a payload.
Stage2NoPayload ==
  /\ imagenResponse # Undefined
  /\ imagenResponse.ok
  /\ imagenResponse.body \in NoPayloadBodies

\* C8: when stage 2 returns 2xx without a bytesBase64Encoded payload, the
\* operation ends with the "no data" error, whatever stage 1 produced, and the
\* image call is not issued again; no other failure is reported with that
\* message.
C8_EmptyImageError ==
  /\ Stage2NoPayload =>
       /\ pc = "done"
       /\ responses = <<[status |-> 500,
                         body |-> [error |-> Str("Image generation failed to return data.")]]>>
       /\ Calls(2) = Len(attempts[2])
       /\ attempts[2][Len(attempts[2])].outcome = "resolved"
  /\ (responses # <<>> /\ responses[1].status # 200
        /\ responses[1].body.error = Str("Image generation failed to return data.")) =>
       Stage2NoPayload

\* A parsed idea was followed by an image answer without payload.
C8_Witness ==
  /\ generatedName = Str("Gattociclo")
  /\ Stage2NoPayload
  /\ imagenResponse.body = Obj([predictions |-> Arr(<<Obj(<<>>)>>)])
  /\ pc = "done"

\* v is a non-empty string.
NonEmptyString(v) == v.type = "string" /\ v.val # ""

\* C9: every 200 response carries name, translation and an imageUrl made of
\* "data:image/png;base64," and a non-empty payload; every other response
\* carries an error string and nothing else.
C9_AllOrNothing ==
  \A n \in DOMAIN responses :
    LET r == responses[n]
    IN  IF r.status = 200
        THEN /\ DOMAIN r.body = {"name", "translation", "imageUrl"}
             /\ NonEmptyString(r.body.name)
             /\ NonEmptyString(r.body.translation)
             /\ \E b \in Payloads :
                  b # "" /\ r.body.imageUrl = Str("data:image/png;base64," \o b)
        ELSE /\ DOMAIN r.body = {"error"}
             /\ NonEmptyString(r.body.error)

\* A 200 response was sent for an idea whose translation fell back.
C9_Witness ==
  /\ responses # <<>> /\ responses[1].status = 200
  /\ generatedName = Str("Gattociclo")
  /\ generatedTranslation = Str("The Unnamed Creation")

\* The text {"italianName":"Gattociclo","englishTranslation":"Cat-cycle",
\* "imagePrompt":"a bicycle with a cat's head"}.
GattocicloText ==
  <<LBrace, StrTok("italianName"), Colon, StrTok("Gattociclo"), Comma,
    StrTok("englishTranslation"), Colon, StrTok("Cat-cycle"), Comma,
    StrTok("imagePrompt"), Colon, StrTok("a bicycle with a cat's head"), RBrace>>

\* C10: when stage 1 returns the JSON text with italianName Gattociclo,
\* englishTranslation Cat-cycle and a non-empty imagePrompt, and stage 2
\* returns a prediction with payload P, the one response is 200 with exactly
\* name Gattociclo, translation Cat-cycle and imageUrl
\* "data:image/png;base64," followed by P.
C10_ParsedResult ==
  \A b \in Payloads :
    ( /\ geminiResponse = Response(TRUE, GeminiBody(Obj([text |-> Text(GattocicloText)])))
      /\ imagenResponse = Response(TRUE, PayloadBody(b)) ) =>
      responses = <<[status |-> 200,
                     body |-> [name |-> Str("Gattociclo"),
                               translation |-> Str("Cat-cycle"),
                               imageUrl |-> Str("data:image/png;base64," \o b)]]>>

\* The Gattociclo text and the payload AAAA were received and answered.
C10_Witness ==
  /\ geminiResponse = Response(TRUE, GeminiBody(Obj([text |-> Text(GattocicloText)])))
  /\ imagenResponse = Response(TRUE, PayloadBody("AAAA"))
  /\ responses # <<>>
  /\ responses[1].body.imageUrl = Str("data:image/png;base64,AAAA")

\* The value a field of the idea takes for the member value v of the text:
\* v itself when it is a non-empty string, the fallback otherwise.
KeptOr(v, fallback) == IF v.type = "string" /\ v.val # "" THEN v ELSE fallback

\* C11: after stage 1 completes with 2xx and a JSON body, name, translation
\* and imagePrompt are all non-empty, whatever the text (absent, not JSON,
\* null, a string, an object); for an object text each field that is missing,
\* null or empty takes its own fallback and each present field is kept.
C11_IdeaFullyPopulated ==
  (geminiResponse # Undefined /\ geminiResponse.ok /\ geminiResponse.body # NotJson) =>
    /\ NonEmptyString(generatedName)
    /\ NonEmptyString(generatedTranslation)
    /\ NonEmptyString(finalImagePrompt)
    /\ \A n \in ItalianNames, t \in EnglishTranslations, p \in ImagePrompts :
         geminiResponse.body = GeminiBody(Obj([text |-> Text(IdeaText(n, t, p))])) =>
           /\ generatedName = KeptOr(n, Str("Il Creato Senza Nome"))
           /\ generatedTranslation = KeptOr(t, Str("The Unnamed Creation"))
           /\ finalImagePrompt = KeptOr(p,
                Str("A surreal hybrid creature, vibrant colors, baroque illustration, octane render."))

\* The text had the name, an empty translation and no image prompt.
C11_Witness ==
  /\ geminiResponse # Undefined
  /\ geminiResponse.ok
  /\ geminiResponse.body =
       GeminiBody(Obj([text |-> Text(IdeaText(Str("Gattociclo"), Str(""), Undefined))]))
  /\ generatedName = Str("Gattociclo")
  /\ generatedTranslation = Str("The Unnamed Creation")
  /\ stage = 2

RECURSIVE SumSeq(_)
\* The sum of a sequence of numbers.
SumSeq(q) == IF q = <<>> THEN 0 ELSE Head(q) + SumSeq(Tail(q))

\* C12 as stated: a call that is rejected on all 3 attempts has spent
\* 1000 + 2000 + 4000 = 7000 ms in backoff waits when its error is surfaced.
C12_Original ==
  \A s \in Stages :
    (Outcomes(s) = RejectedTimes(3) /\ responses # <<>>) => SumSeq(waits[s]) = 7000

\* C12 as amended: a call that is rejected on all 3 attempts has waited twice,
\* 1000 ms then 2000 ms, 3000 ms in total, when its error is surfaced; there
\* is no wait after the last attempt.
C12_TotalBackoff ==
  \A s \in Stages :
    (Outcomes(s) = RejectedTimes(3) /\ responses # <<>>) =>
      /\ waits[s] = <<1000, 2000>>
      /\ SumSeq(waits[s]) = 3000

\* Stage 1 was rejected three times and the error was sent.
C12_Witness ==
  /\ Outcomes(1) = RejectedTimes(3)
  /\ Len(waits[1]) = 2
  /\ pc = "done"
  /\ responses # <<>>

\* The prefix of the error thrown for a non-2xx answer of stage s.
ErrorPrefix(s) == IF s = 1 THEN "Gemini API Error: " ELSE "Imagen API Error: "

\* C13: for every non-2xx answer of stage 1 or stage 2, whatever the error
\* body, the error sent to the inbound caller carries a message that came
\* from upstream.
C13_UpstreamMessageCarried ==
  \A s \in Stages :
    (NonOkAnswer(s) /\ responses # <<>>) =>
      \E m \in UpstreamMessages :
        responses[1].body.error = Str(ErrorPrefix(s) \o m)

\* C16: the image endpoint is called only after stage 1 returned a 2xx
\* response; when stage 1 ends in failure (rejected on every attempt, or a
\* non-2xx answer) no image call is issued; and no text call follows an
\* image call.
C16_StagesSequential ==
  /\ (\E n \in DOMAIN requests : requests[n].api = "imagen") =>
       (geminiResponse # Undefined /\ geminiResponse.ok)
  /\ (Outcomes(1) = RejectedTimes(3) \/ NonOkAnswer(1)) =>
       \A n \in DOMAIN requests : requests[n].api = "gemini"
  /\ \A m, n \in DOMAIN requests :
       (m < n /\ requests[m].api = "imagen") => requests[n].api = "imagen"
  /\ requests # <<>> => requests[1].api = "gemini"

\* Stage 1 needed two calls, stage 2 was then called twice.
C16_Witness ==
  /\ Len(requests) = 4
  /\ requests[2].api = "gemini"
  /\ requests[3].api = "imagen"
  /\ requests[4].api = "imagen"

\* C17: every invocation of the handler that has ended has sent exactly one
\* response, for every request.
C17_ExactlyOneResponse ==
  pc \in {"done", "crashed"} => Len(responses) = 1

GattocicloAnswer == Response(TRUE, GeminiBody(Obj([text |-> Text(GattocicloText)])))
ProseAnswer == Response(TRUE, GeminiBody(Obj([text |-> Text(<<WordTok>>)])))
QuotaAnswer == Response(FALSE, Obj([error |-> Obj([message |-> Str("quota exceeded")])]))

\* The name and translation that follow from the stage-1 answer r.
NameFor(r) == IF r = GattocicloAnswer THEN Str("Gattociclo") ELSE Str("Il Creato Senza Nome")
TranslationFor(r) == IF r = GattocicloAnswer THEN Str("Cat-cycle") ELSE Str("The Unnamed Creation")

\* The one response that follows from the request of invocation a and from
\* what its own fetches settled with.
OwnResponse(a) ==
  LET o == cOwn[a]
  IN  IF cMethod[a] # "POST"
      THEN [status |-> 405, body |-> [error |-> Str("Method Not Allowed")]]
      ELSE IF o.rejected = 3
      THEN [status |-> 500, body |-> [error |-> Str(o.lastError)]]
      ELSE IF o.gemini = QuotaAnswer
      THEN [status |-> 500, body |-> [error |-> Str("Gemini API Error: quota exceeded")]]
      ELSE IF o.imagen = QuotaAnswer
      THEN [status |-> 500, body |-> [error |-> Str("Imagen API Error: quota exceeded")]]
      ELSE IF o.imagen = Response(TRUE, Obj(<<>>))
      THEN [status |-> 500,
            body |-> [error |-> Str("Image generation failed to return data.")]]
      ELSE [status |-> 200,
            body |-> [name |-> NameFor(o.gemini),
                      translation |-> TranslationFor(o.gemini),
                      imageUrl |-> Str("data:image/png;base64,AAAA")]]

\* C14: in every interleaving of the concurrent invocations, each
\* invocation's retry counter is the number of its own rejected fetches in
\* its current stage, its stage-1 idea is the one of its own stage-1 answer,
\* and its response is the one that follows from its own request and its
\* own upstream answers.
C14_NoSharedState ==
  \A a \in Invocations :
    /\ cPc[a] = "fetching" => LocalsOf(a).i = cOwn[a].rejected
    /\ cPc[a] = "backoff" => LocalsOf(a).i = cOwn[a].rejected - 1
    /\ cStage[a] = 2 =>
         /\ LocalsOf(a).geminiResponse = cOwn[a].gemini
         /\ LocalsOf(a).generatedName = NameFor(cOwn[a].gemini)
         /\ LocalsOf(a).generatedTranslation = TranslationFor(cOwn[a].gemini)
    /\ cPc[a] = "done" => cResponses[a] = <<OwnResponse(a)>>
    /\ cPc[a] # "done" => cResponses[a] = <<>>

\* Invocation 1 has answered 200 for the parsed idea while invocation 2,
\* started meanwhile, waits in its second backoff pause of stage 2 with the
\* fallback idea.
C14_Witness ==
  /\ cPc[1] = "done"
  /\ cResponses[1] # <<>> /\ cResponses[1][1].status = 200
  /\ cOwn[1].gemini = GattocicloAnswer
  /\ cPc[2] = "backoff"
  /\ cStage[2] = 2
  /\ cOwn[2].rejected = 2
  /\ cOwn[2].gemini = ProseAnswer



\* C15: in every execution of generateFusion addDoc is called at most once;
\* it is called only in the step in which the backend's response came back
\* ok and its name, translation and image were set as the result; and an
\* execution whose validation failed, whose fetch failed or whose backend
\* response was an error has written no record.
C15_RecordOnlyAfterSuccess ==
  /\ [](gfSaved <= 1)
  /\ []((gfResponse = Undefined \/ ~gfResponse.ok) => gfSaved = 0)
  /\ [][addDocCalls' # addDocCalls =>
          /\ addDocCalls' = addDocCalls + 1
          /\ gfPc = "fetching"
          /\ gfResponse'.ok
          /\ resultName' = Member(gfResponse'.body, "name")
          /\ resultTranslation' = Member(gfResponse'.body, "translation")
          /\ resultImage' = Member(gfResponse'.body, "imageUrl")
          /\ Member(lastDoc', "name") = resultName']_vars

\* Two executions have each written their record, the second is awaiting
\* addDoc.
C15_Witness ==
  /\ addDocCalls = 2
  /\ gfSaved = 1
  /\ gfPc = "addDoc"
  /\ resultImage = Member(SampleResult, "imageUrl")

\* C19: no slot ever holds a non-empty text and an image at the same time.
C19_TextImageExclusive ==
  \A k \in Slots : ~(Truthy(input[k]) /\ imageBase64[k] # Null)

\* C20: a generateFusion call that set isLoading to true sets it back to
\* false whichever way it ends, provided the promises it awaits settle; and
\* no step taken while isLoading is true issues a backend request, so a call
\* made while a call is in flight issues none.
C20_LoadingAlwaysCleared ==
  /\ isLoading ~> ~isLoading
  /\ [][isLoading => backendRequests' = backendRequests]_vars

\* A second call was made while the first was in flight, and every way a call
\* ends has happened: validation failure, backend error, history-write
\* failure (the error of addDoc is shown) or success.
C20_Witness ==
  /\ calls = 2
  /\ backendRequests = 1
  /\ ~isLoading
  /\ gfPc = "idle"
  /\ addDocCalls = 1
  /\ error = Str(ServerErrorMessage(AddDocError))


\* C21: in the step in which a generateFusion call finishes, an error and a
\* result image are not both set: if error is non-null then resultImage is
\* null.
C21_ErrorExcludesImage ==
  [][(gfPc # "idle" /\ gfPc' = "idle") => (error' # Null => resultImage' = Null)]_vars

====
